---------------------------- MODULE Spec2Model ----------------------------
(***************************************************************************)
(* Model of run_megahit (src/run_megahit/src/lib.rs): command-line        *)
(* parsing (get_args), read-file classification (classify, get_extension) *)
(* and job construction (make_jobs).                                       *)
(*                                                                         *)
(* Text is modelled as a sequence of one-character strings, so that the    *)
(* regular expressions of the source act on the characters they act on in  *)
(* the program.  An Option<T> is a sequence of length 0 (None) or 1.       *)
(*                                                                         *)
(* The file system and the child process are outside the model: `files`    *)
(* is the list find_files hands to classify (any list of paths, as in the  *)
(* unit tests, which call classify directly), out_dir is left out of the   *)
(* job lines, and the run ends once make_jobs has built them.  A panic is  *)
(* a final value of pc.                                                    *)
(***************************************************************************)
EXTENDS Integers, Sequences, FiniteSets, TLC

VARIABLES
    argv,      \* command line: option name -> Option<raw text>
    config,    \* Config built by get_args
    files,     \* the file list handed to classify by run
    pc,        \* position in run / classify
    exts,      \* classify: escaped extensions joined into the pattern
    idx,       \* classify: index of the next path of the scanning loop
    pairs,     \* classify: ReadPairLookup, sample name -> (direction -> path)
    singles,   \* classify: SingleReads
    jobs,      \* make_jobs: the job lines
    extName,   \* get_extension unit: the file name under test
    extOut     \* get_extension unit: <<result>> once computed, else <<>>

vars == <<argv, config, files, pc, exts, idx, pairs, singles, jobs, extName, extOut>>

-----------------------------------------------------------------------------
(* Bounds of the model *)

MaxPaths == 3

MaxNameLen == 4

-----------------------------------------------------------------------------
(* Option and text helpers *)

None == <<>>

Some(x) == <<x>>

IsSome(o) == Len(o) = 1

Unwrap(o) == o[1]

NL == "\n"

Chars(s) == {s[k] : k \in 1..Len(s)}

Suffix(s, from) == SubSeq(s, from, Len(s))

EndsWith(s, t) == Len(s) >= Len(t) /\ Suffix(s, Len(s) - Len(t) + 1) = t

RECURSIVE FlatJoin(_)
FlatJoin(ss) == IF ss = <<>> THEN <<>> ELSE Head(ss) \o FlatJoin(Tail(ss))

-----------------------------------------------------------------------------
(* std::path::Path::file_name: the final component when it is a normal    *)
(* one.  Empty components and "." components are skipped by the           *)
(* components iterator; a final ".." gives None, as does a path with no    *)
(* normal component at all ("", "/", ".").                                 *)

RECURSIVE Components(_, _)
Components(path, cur) ==
    IF path = <<>> THEN <<cur>>
    ELSE IF Head(path) = "/" THEN <<cur>> \o Components(Tail(path), <<>>)
    ELSE Components(Tail(path), Append(cur, Head(path)))

file_name(path) ==
    LET all  == Components(path, <<>>)
        kept == SelectSeq(all, LAMBDA c : c # <<>> /\ c # <<".">>)
    IN  IF kept = <<>> THEN None
        ELSE IF kept[Len(kept)] = <<".", ".">> THEN None
        ELSE Some(kept[Len(kept)])

-----------------------------------------------------------------------------
(* get_extension: the regex \.([^.]+(?:\.gz)?)$ on the base name.  The     *)
(* match is the leftmost dot from which the rest of the name is            *)
(* [^.]+ optionally followed by ".gz", up to the end of the text.          *)

NoDot(s) == s # <<>> /\ "." \notin Chars(s)

GzSuffix == <<".", "g", "z">>

ExtBody(rest) ==
    \/ NoDot(rest)
    \/ /\ EndsWith(rest, GzSuffix)
       /\ NoDot(SubSeq(rest, 1, Len(rest) - 3))

\* the pattern with a character required before the dot: .\.([^.]+(?:\.gz)?)$
ExtStarts_after_stem(b) == {k \in 2..Len(b) : b[k] = "." /\ ExtBody(Suffix(b, k + 1))}

ExtStarts(b) == {k \in 1..Len(b) : b[k] = "." /\ ExtBody(Suffix(b, k + 1))}

Min(S) == CHOOSE x \in S : \A y \in S : x <= y

Max(S) == CHOOSE x \in S : \A y \in S : x >= y

get_extension(path) ==
    LET fname == file_name(path)
    IN  IF ~IsSome(fname) THEN None
        ELSE LET b == Unwrap(fname)
             IN  IF ExtStarts(b) = {} THEN None
                 ELSE Some(Suffix(b, Min(ExtStarts(b)) + 1))

-----------------------------------------------------------------------------
(* classify, lines 306-318: the extensions of all paths, Vec::dedup, dot    *)
(* escaping with Regex::replace, and the pattern                            *)
(*     (.+)[_-][Rr]?([12])?\.(?:<ext>|<ext>|...)$                           *)

\* Vec::dedup removes consecutive repeated elements only.
RECURSIVE dedup(_)
dedup(v) ==
    IF Len(v) <= 1 THEN v
    ELSE IF v[1] = v[2] THEN dedup(Tail(v))
    ELSE <<v[1]>> \o dedup(Tail(v))

\* Regex::replace rewrites the first match only: the first "." becomes "\.".
RECURSIVE escape_dot(_)
escape_dot(x) ==
    IF x = <<>> THEN <<>>
    ELSE IF Head(x) = "." THEN <<"\\", ".">> \o Tail(x)
    ELSE <<Head(x)>> \o escape_dot(Tail(x))

collect_exts(paths) ==
    LET found == [k \in 1..Len(paths) |-> get_extension(paths[k])]
        kept  == SelectSeq(found, IsSome)
        plain == dedup([k \in 1..Len(kept) |-> Unwrap(kept[k])])
    IN  [k \in 1..Len(plain) |-> escape_dot(plain[k])]

\* Regex::new on the assembled pattern.  The extensions are pasted in as
\* pattern text: of the characters the model draws names from, "(" is the
\* one that is regex syntax, and it opens a group that nothing closes.
pattern_compiles(es) == \A k \in 1..Len(es) : "(" \notin Chars(es[k])

\* One pasted extension matched as pattern text against s: "\x" is the
\* literal x, a bare "." is any character but a line break, any other
\* character is itself.
RECURSIVE FragMatch(_, _)
FragMatch(frag, s) ==
    IF frag = <<>> THEN s = <<>>
    ELSE IF s = <<>> THEN FALSE
    ELSE IF Head(frag) = "\\"
         THEN /\ Len(frag) >= 2
              /\ s[1] = frag[2]
              /\ FragMatch(Suffix(frag, 3), Tail(s))
    ELSE IF Head(frag) = "."
         THEN s[1] # NL /\ FragMatch(Tail(frag), Tail(s))
    ELSE s[1] = Head(frag) /\ FragMatch(Tail(frag), Tail(s))

Separators == {"_", "-"}

Markers == {"R", "r"}

MateDigits == {"1", "2"}

\* the pattern with the separator made optional, [_-]?
TailFits_optional_separator(b, p, es, r, d) ==
    \E sp \in {0, 1} :
        LET q == p + sp + r + d
        IN  /\ sp = 1 => (p <= Len(b) /\ b[p] \in Separators)
            /\ r = 1 => (p + sp <= Len(b) /\ b[p + sp] \in Markers)
            /\ d = 1 => (p + sp + r <= Len(b) /\ b[p + sp + r] \in MateDigits)
            /\ q <= Len(b) /\ b[q] = "."
            /\ \E k \in 1..Len(es) : FragMatch(es[k], Suffix(b, q + 1))

\* [_-][Rr]?([12])?\.(?:...)$ from position p of b with the marker taken
\* (r = 1) or not and the digit group taken (d = 1) or not.
TailFits(b, p, es, r, d) ==
    LET q == p + 1 + r + d
    IN  /\ p <= Len(b) /\ b[p] \in Separators
        /\ r = 1 => (p + 1 <= Len(b) /\ b[p + 1] \in Markers)
        /\ d = 1 => (p + 1 + r <= Len(b) /\ b[p + 1 + r] \in MateDigits)
        /\ q <= Len(b) /\ b[q] = "."
        /\ \E k \in 1..Len(es) : FragMatch(es[k], Suffix(b, q + 1))

\* The greedy order of the two optional items: taken before not taken.
TailChoices == << <<1, 1>>, <<1, 0>>, <<0, 1>>, <<0, 0>> >>

\* None when the tail does not match at p, else Some(group 2), group 2
\* itself being None when the digit group took no part in the match.
TailParse(b, p, es) ==
    LET fit == {c \in 1..4 : TailFits(b, p, es, TailChoices[c][1], TailChoices[c][2])}
    IN  IF fit = {} THEN None
        ELSE LET c == TailChoices[Min(fit)]
             IN  Some(IF c[2] = 1 THEN Some(b[p + 1 + c[1]]) ELSE None)

\* (.+) from s to e: one or more characters, none a line break.
SampleRun(b, s, e) == s <= e /\ \A k \in s..e : b[k] # NL

\* re.captures(basename): the leftmost start that matches and, from it, the
\* longest (.+) for which the rest of the pattern matches.
captures(b, es) ==
    LET tails   == {p \in 2..Len(b) : IsSome(TailParse(b, p, es))}
        ends(s) == {e \in s..Len(b) : e + 1 \in tails /\ SampleRun(b, s, e)}
        starts  == {s \in 1..Len(b) : ends(s) # {}}
    IN  IF starts = {} THEN None
        ELSE LET s == Min(starts)
                 e == Max(ends(s))
             IN  Some([sample |-> SubSeq(b, s, e),
                       digit  |-> Unwrap(TailParse(b, e + 1, es))])

-----------------------------------------------------------------------------
(* classify, lines 322-346: the scanning loop *)

Forward == "Forward"

Reverse == "Reverse"

EmptyMap == [k \in {} |-> {}]

\* lines 329-333
direction_of(digit) == IF digit = "1" THEN Forward ELSE Reverse

\* an insert that keeps the path already in the slot (entry().or_insert)
pair_insert_keep_first(pair, dir, path) ==
    [d \in DOMAIN pair \cup {dir} |-> IF d \in DOMAIN pair THEN pair[d] ELSE path]

\* HashMap::insert on a ReadPair
pair_insert(pair, dir, path) ==
    [d \in DOMAIN pair \cup {dir} |-> IF d = dir THEN path ELSE pair[d]]

\* lines 335-341
insert_read(lookup, sample, dir, path) ==
    [k \in DOMAIN lookup \cup {sample} |->
        IF k = sample
        THEN pair_insert(IF sample \in DOMAIN lookup THEN lookup[sample] ELSE EmptyMap,
                         dir, path)
        ELSE lookup[k]]

\* the filter with && for ||: only a pair lacking both directions is bad
is_bad_both_missing(pair) == Forward \notin DOMAIN pair /\ Reverse \notin DOMAIN pair

\* lines 348-359
is_bad(pair) == Forward \notin DOMAIN pair \/ Reverse \notin DOMAIN pair

bad_keys(lookup) == {k \in DOMAIN lookup : is_bad(lookup[k])}

\* All orders in which a HashMap may hand out the elements of S.
Orders(S) ==
    {f \in [1..Cardinality(S) -> S] : \A a, b \in 1..Cardinality(S) : f[a] = f[b] => a = b}

\* the loop without its pairs.remove(&key)
remove_keys_forgotten(lookup, ks) == lookup

\* line 368
remove_keys(lookup, ks) == [k \in DOMAIN lookup \ ks |-> lookup[k]]

-----------------------------------------------------------------------------
(* get_args, lines 47-176.  clap hands back the text given for an option,   *)
(* or the option's default_value, or nothing; the text is trimmed and       *)
(* parsed, and a text that does not parse becomes None (.ok()).             *)

U32Options == {"num_concurrent_jobs", "num_halt", "min_count", "k_min", "k_max",
               "k_step", "min_contig_len"}

OptionNames == U32Options \cup {"memory"}

TuningU32 == {"min_count", "k_min", "k_max", "k_step", "min_contig_len"}

\* memory declared like the other tuning options, without a default_value
default_value_no_memory(opt) ==
    CASE opt = "num_concurrent_jobs" -> Some(<<"8">>)
      [] opt = "num_halt"            -> Some(<<"0">>)
      [] OTHER                       -> None

\* .default_value(...) of lines 73, 81 and 119
default_value(opt) ==
    CASE opt = "num_concurrent_jobs" -> Some(<<"8">>)
      [] opt = "num_halt"            -> Some(<<"0">>)
      [] opt = "memory"              -> Some(<<"1", "0", "0", "0", "0", "0", "0", "0", "0", "0">>)
      [] OTHER                       -> None

\* matches.value_of(opt)
value_of(args, opt) == IF IsSome(args[opt]) THEN args[opt] ELSE default_value(opt)

DigitChars == <<"0", "1", "2", "3", "4", "5", "6", "7", "8", "9">>

IsDigit(c) == \E k \in 1..10 : DigitChars[k] = c

DigitVal(c) == (CHOOSE k \in 1..10 : DigitChars[k] = c) - 1

AllDigits(s) == s # <<>> /\ \A k \in 1..Len(s) : IsDigit(s[k])

\* str::trim
RECURSIVE trim_start(_)
trim_start(s) == IF s # <<>> /\ Head(s) = " " THEN trim_start(Tail(s)) ELSE s

RECURSIVE trim_end(_)
trim_end(s) ==
    IF s # <<>> /\ s[Len(s)] = " " THEN trim_end(SubSeq(s, 1, Len(s) - 1)) ELSE s

trim(s) == trim_end(trim_start(s))

RECURSIVE strip_zeros(_)
strip_zeros(s) == IF Len(s) > 1 /\ Head(s) = "0" THEN strip_zeros(Tail(s)) ELSE s

\* a <= b for two digit texts of the same length
RECURSIVE DigitsLeq(_, _)
DigitsLeq(a, b) ==
    IF a = <<>> THEN TRUE
    ELSE IF DigitVal(Head(a)) < DigitVal(Head(b)) THEN TRUE
    ELSE IF DigitVal(Head(a)) > DigitVal(Head(b)) THEN FALSE
    ELSE DigitsLeq(Tail(a), Tail(b))

\* u32::MAX, 4294967295, as digits
U32MaxDigits == <<"4", "2", "9", "4", "9", "6", "7", "2", "9", "5">>

\* x.trim().parse::<u32>().ok(): an optional "+", then digits, the value at
\* most u32::MAX.  The value is kept as its decimal text, which is what
\* format!("{}", v) prints.
parse_u32(text) ==
    LET t    == trim(text)
        body == IF t # <<>> /\ Head(t) = "+" THEN Tail(t) ELSE t
        v    == strip_zeros(body)
    IN  IF AllDigits(body)
           /\ (Len(v) < Len(U32MaxDigits)
               \/ (Len(v) = Len(U32MaxDigits) /\ DigitsLeq(v, U32MaxDigits)))
        THEN Some(v)
        ELSE None

\* x.trim().parse::<f32>().ok() on texts of signs, digits and dots: an
\* optional sign, then digits with at most one dot and at least one digit.
\* The value is kept as the text it was read from.
parse_f32(text) ==
    LET t      == trim(text)
        body   == IF t # <<>> /\ Head(t) \in {"+", "-"} THEN Tail(t) ELSE t
        dots   == {k \in 1..Len(body) : body[k] = "."}
        digits == {k \in 1..Len(body) : IsDigit(body[k])}
    IN  IF /\ digits # {}
           /\ Cardinality(dots) <= 1
           /\ dots \cup digits = 1..Len(body)
        THEN Some(body)
        ELSE None

\* lines 132-175
get_args(args) ==
    [o \in OptionNames |->
        LET given == value_of(args, o)
        IN  IF ~IsSome(given) THEN None
            ELSE IF o = "memory" THEN parse_f32(Unwrap(given))
            ELSE parse_u32(Unwrap(given))]

-----------------------------------------------------------------------------
(* make_jobs, lines 210-275 *)

\* lines 215-239: the flags, in the order they are pushed
flag_order == << <<"min_count", "--min-count">>, <<"k_min", "--k-min">>,
                 <<"k_max", "--k-max">>, <<"k_step", "--k-step">>,
                 <<"min_contig_len", "--min-contig-len">>, <<"memory", "--memory">> >>

job_args(cfg) ==
    LET set  == SelectSeq(flag_order, LAMBDA f : IsSome(cfg[f[1]]))
    IN  [k \in 1..Len(set) |-> <<set[k][2], Unwrap(cfg[set[k][1]])>>]

\* lines 245-256: a job for a pair holding both directions, nothing otherwise
pair_jobs(cfg, lookup, order) ==
    LET whole == SelectSeq(order, LAMBDA k : Forward \in DOMAIN lookup[k]
                                             /\ Reverse \in DOMAIN lookup[k])
    IN  [n \in 1..Len(whole) |->
            [args   |-> job_args(cfg),
             inputs |-> << <<"-1", lookup[whole[n]][Forward]>>,
                           <<"-2", lookup[whole[n]][Reverse]>> >>]]

\* lines 259-272
single_jobs(cfg, reads) ==
    [n \in 1..Len(reads) |-> [args |-> job_args(cfg), inputs |-> << <<"-r", reads[n]>> >>]]

-----------------------------------------------------------------------------
(* The inputs the specifications draw from *)

\* a/S_1.fq : mate 1 of sample S, in directory a
P_aS1 == <<"a", "/", "S", "_", "1", ".", "f", "q">>

\* b/S_1.fq : the same base name in directory b
P_bS1 == <<"b", "/", "S", "_", "1", ".", "f", "q">>

\* S-R1.fq : mate 1 of sample S under another base name
P_SR1 == <<"S", "-", "R", "1", ".", "f", "q">>

\* S_2.fq : mate 2 of sample S
P_S2 == <<"S", "_", "2", ".", "f", "q">>

\* S.fq : no separator and no marker
P_S == <<"S", ".", "f", "q">>

\* S1.fq : a digit with no separator before it
P_S1n == <<"S", "1", ".", "f", "q">>

\* S2.fq : a digit with no separator before it
P_S2n == <<"S", "2", ".", "f", "q">>

\* S_.fq : a separator and no mate digit
P_Su == <<"S", "_", ".", "f", "q">>

\* S_R.fq : a separator, a marker and no mate digit
P_SR == <<"S", "_", "R", ".", "f", "q">>

\* S.( : an extension that is regex syntax
P_Sp == <<"S", ".", "(">>

\* .. : a path with no base name
P_up == <<".", ".">>

\* s_1.x_2.gz : extension x_2.gz, which itself ends in a separator and a digit
P_s1x == <<"s", "_", "1", ".", "x", "_", "2", ".", "g", "z">>

\* s-r2.x_2.gz : its mate
P_s2x == <<"s", "-", "r", "2", ".", "x", "_", "2", ".", "g", "z">>

\* q.gz : brings the extension gz into the pattern
P_qgz == <<"q", ".", "g", "z">>

PathUniverse ==
    {P_aS1, P_bS1, P_SR1, P_S2, P_S, P_S1n, P_S2n,
     P_Su, P_SR, P_Sp, P_up, P_s1x, P_s2x, P_qgz}

Lists(U) == UNION {[1..n -> U] : n \in 0..MaxPaths}

\* option texts: a u32 with blanks around it, a fraction, no number at all,
\* and u32::MAX + 1
V_7 == <<" ", "7", " ">>

V_frac == <<"0", ".", "9">>

V_x == <<"x">>

V_big == <<"4", "2", "9", "4", "9", "6", "7", "2", "9", "6">>

RawValues == {V_7, V_frac, V_x, V_big}

NoOptions == [o \in OptionNames |-> None]

ArgvAll ==
    {[o \in OptionNames |-> IF o \in TuningU32 \cup {"memory"} THEN f[o] ELSE None] :
        f \in [TuningU32 \cup {"memory"} -> {None} \cup {Some(v) : v \in RawValues}]}

FewLists == {<<>>, <<P_Su>>, <<P_aS1, P_S2, P_S>>}

\* every text of at most MaxNameLen characters over these
NameChars == {"a", "g", "z", ".", "/"}

Names == UNION {[1..n -> NameChars] : n \in 0..MaxNameLen}

-----------------------------------------------------------------------------
(* The state machine: run (lines 179-207), with classify as its loop *)

Panics == {"panic_pattern", "panic_group", "panic_basename"}

InitWith(lists, argvs, names) ==
    /\ argv \in argvs
    /\ files \in lists
    /\ config = NoOptions
    /\ pc = "args"
    /\ exts = <<>>
    /\ idx = 0
    /\ pairs = EmptyMap
    /\ singles = <<>>
    /\ jobs = <<>>
    /\ extName \in names
    /\ extOut = <<>>

Init == InitWith(Lists(PathUniverse), {NoOptions}, {<<>>})

InitArgs == InitWith(FewLists, ArgvAll, {<<>>})

\* main: get_args
GetArgs ==
    /\ pc = "args"
    /\ config' = get_args(argv)
    /\ pc' = "run"
    /\ UNCHANGED <<argv, files, exts, idx, pairs, singles, jobs, extName, extOut>>

\* run, lines 182-185 (and find_files, lines 295-297)
RunNoFiles ==
    /\ pc = "run"
    /\ files = <<>>
    /\ pc' = "error"
    /\ UNCHANGED <<argv, config, files, exts, idx, pairs, singles, jobs, extName, extOut>>

\* classify, lines 306-320: Regex::new(&pattern).unwrap() panics on a
\* pattern that does not compile
ClassifyBegin ==
    /\ pc = "run"
    /\ files # <<>>
    /\ exts' = collect_exts(files)
    /\ pc' = IF pattern_compiles(exts') THEN "scan" ELSE "panic_pattern"
    /\ idx' = 1
    /\ pairs' = EmptyMap
    /\ singles' = <<>>
    /\ UNCHANGED <<argv, config, files, jobs, extName, extOut>>

\* classify, lines 322-346, one path of the loop.  &cap[2] (line 329)
\* panics when group 2 took no part in the match.
ClassifyFile ==
    /\ pc = "scan"
    /\ idx <= Len(files)
    /\ LET path  == files[idx]
           fname == file_name(path)
           cap   == IF IsSome(fname) THEN captures(Unwrap(fname), exts) ELSE None
       IN  IF ~IsSome(fname)
           THEN /\ idx' = idx + 1
                /\ UNCHANGED <<pc, pairs, singles>>
           ELSE IF ~IsSome(cap)
           THEN /\ singles' = Append(singles, path)
                /\ idx' = idx + 1
                /\ UNCHANGED <<pc, pairs>>
           ELSE IF ~IsSome(Unwrap(cap).digit)
           THEN /\ pc' = "panic_group"
                /\ UNCHANGED <<idx, pairs, singles>>
           ELSE /\ pairs' = insert_read(pairs, Unwrap(cap).sample,
                                        direction_of(Unwrap(Unwrap(cap).digit)), path)
                /\ idx' = idx + 1
                /\ UNCHANGED <<pc, singles>>
    /\ UNCHANGED <<argv, config, files, exts, jobs, extName, extOut>>

\* pair.values() of one pair, in any order the map may give
values_orders(pair) ==
    {[n \in 1..Cardinality(DOMAIN pair) |-> pair[o[n]]] : o \in Orders(DOMAIN pair)}

\* one order of values for each of the keys ks
values_choices(lookup, ks) ==
    {f \in [ks -> UNION {values_orders(lookup[k]) : k \in ks}] :
        \A k \in ks : f[k] \in values_orders(lookup[k])}

\* classify, lines 348-371: the incomplete pairs are moved to singles, in
\* the order the map hands them out, and classify returns
ClassifyPrune ==
    /\ pc = "scan"
    /\ idx > Len(files)
    /\ LET bad == bad_keys(pairs)
       IN  /\ \E order \in Orders(bad), vals \in values_choices(pairs, bad) :
                 singles' = singles \o FlatJoin([n \in 1..Len(order) |-> vals[order[n]]])
           /\ pairs' = remove_keys(pairs, bad)
    /\ pc' = "classified"
    /\ UNCHANGED <<argv, config, files, exts, idx, jobs, extName, extOut>>

\* make_jobs, lines 210-275; file_name().expect("basename") (line 261)
\* panics on a single read with no base name
MakeJobs ==
    /\ pc = "classified"
    /\ IF \E n \in 1..Len(singles) : ~IsSome(file_name(singles[n]))
       THEN /\ pc' = "panic_basename"
            /\ UNCHANGED jobs
       ELSE /\ \E order \in Orders(DOMAIN pairs) :
                  jobs' = pair_jobs(config, pairs, order) \o single_jobs(config, singles)
            /\ pc' = "jobs"
    /\ UNCHANGED <<argv, config, files, exts, idx, pairs, singles, extName, extOut>>

Next == GetArgs \/ RunNoFiles \/ ClassifyBegin \/ ClassifyFile \/ ClassifyPrune \/ MakeJobs

Spec == Init /\ [][Next]_vars

SpecArgs == InitArgs /\ [][Next]_vars

-----------------------------------------------------------------------------
(* get_extension on its own: every name over NameChars *)

InitExt == InitWith({<<>>}, {NoOptions}, Names)

ExtStep ==
    /\ extOut = <<>>
    /\ extOut' = <<get_extension(extName)>>
    /\ UNCHANGED <<argv, config, files, pc, exts, idx, pairs, singles, jobs, extName>>

NextExt == ExtStep

SpecExt == InitExt /\ [][NextExt]_vars

-----------------------------------------------------------------------------
(* Vocabulary of the properties *)

\* classify has returned its (PairLookup, SingleReads)
Returned == pc \in {"classified", "jobs", "panic_basename"}

\* the paths the loop has gone past
Scanned == 1..(idx - 1)

\* the path the loop is at, or stopped at
Attempted == IF pc = "panic_group" THEN Scanned \cup {idx} ELSE Scanned

PairSlots == UNION {{<<k, d>> : d \in DOMAIN pairs[k]} : k \in DOMAIN pairs}

InPairs(p) == \E sl \in PairSlots : pairs[sl[1]][sl[2]] = p

InSingles(p) == \E n \in 1..Len(singles) : singles[n] = p

Occurrences(p) ==
    Cardinality({sl \in PairSlots : pairs[sl[1]][sl[2]] = p})
    + Cardinality({n \in 1..Len(singles) : singles[n] = p})

\* the base name of every path the specifications draw from
BaseNames == [p \in PathUniverse |-> file_name(p)]

HasBase(n) == IsSome(BaseNames[files[n]])

Base(n) == Unwrap(BaseNames[files[n]])

\* the extensions found in the input, as plain text
DetectedExts ==
    {Unwrap(get_extension(files[n])) : n \in {m \in 1..Len(files) : IsSome(get_extension(files[m]))}}

MarkerTexts == {<<>>, <<"R">>, <<"r">>}

\* b is S, a separator, an optional marker, the digit d, a dot, an extension
NameForm(b, S, d) ==
    \E sep \in Separators, r \in MarkerTexts, e \in DetectedExts :
        b = S \o <<sep>> \o r \o <<d>> \o <<".">> \o e

MatesOf(S, d) == {n \in 1..Len(files) : HasBase(n) /\ NameForm(Base(n), S, d)}

\* the non-empty beginnings of the base names: every sample name is one
SampleNames ==
    UNION {{SubSeq(Base(n), 1, k) : k \in 1..Len(Base(n))} :
              n \in {m \in 1..Len(files) : HasBase(m)}}

NoSeparator(n) == HasBase(n) /\ Chars(Base(n)) \cap Separators = {}

\* what the pattern makes of path n: Some([sample, digit]) or None
Capture(n) == IF HasBase(n) THEN captures(Base(n), exts) ELSE None

\* the slot a capture with a mate digit sends its path to
SlotOfCapture(c) ==
    <<Unwrap(c).sample, IF Unwrap(c).digit = Some("1") THEN Forward ELSE Reverse>>

\* for the paths of `among` that match: the slot of each
SlotsOf(among) ==
    LET cap == [n \in among |-> Capture(n)]
    IN  [n \in {m \in among : IsSome(cap[m])} |-> SlotOfCapture(cap[n])]

Matched(n) == IsSome(Capture(n))

HoldsSlot(sl, p) ==
    /\ sl[1] \in DOMAIN pairs
    /\ sl[2] \in DOMAIN pairs[sl[1]]
    /\ pairs[sl[1]][sl[2]] = p

\* a file name with exactly one dot and no .gz suffix ("." alone names the
\* current directory, not a file)
SingleDotName(F) ==
    /\ "/" \notin Chars(F)
    /\ F # <<".">>
    /\ Cardinality({k \in 1..Len(F) : F[k] = "."}) = 1
    /\ ~EndsWith(F, GzSuffix)

AfterLastDot(F) == Suffix(F, Max({k \in 1..Len(F) : F[k] = "."}) + 1)

\* the flag make_jobs writes for a tuning option
TuningFlag(o) ==
    CASE o = "min_count"      -> "--min-count"
      [] o = "k_min"          -> "--k-min"
      [] o = "k_max"          -> "--k-max"
      [] o = "k_step"         -> "--k-step"
      [] o = "min_contig_len" -> "--min-contig-len"
      [] o = "memory"         -> "--memory"

HasFlag(job, flag) == \E k \in 1..Len(job.args) : job.args[k][1] = flag

\* the option texts of RawValues that read as a u32, and as an f32
U32Texts == {V_7}

F32Texts == {V_7, V_frac, V_big}

\* b is S, an optional marker, the digit d, a dot, an extension: no separator
BareForm(b, S, d) ==
    \E r \in MarkerTexts, e \in DetectedExts : b = S \o r \o <<d>> \o <<".">> \o e

BareMates(S, d) == {n \in 1..Len(files) : NoSeparator(n) /\ BareForm(Base(n), S, d)}

-----------------------------------------------------------------------------
(* C1.  Once classify has returned, every input path is held exactly once,  *)
(* either in a pair of PairLookup or in SingleReads: none is lost and none  *)
(* is held twice.                                                           *)
C1_EveryPathOnce ==
    Returned => \A n \in 1..Len(files) : Occurrences(files[n]) = 1

(* C2.  classify never fails: neither the compilation of the pattern nor    *)
(* the reading of the mate digit of a matching name aborts it.              *)
C2_NeverPanics == pc \notin {"panic_pattern", "panic_group"}

(* C3.  Every ReadPair of the PairLookup that classify returns holds both   *)
(* a Forward and a Reverse path.                                            *)
C3_PairsComplete ==
    Returned => \A k \in DOMAIN pairs : DOMAIN pairs[k] = {Forward, Reverse}

\* classify has returned a pair and has moved a lone mate to SingleReads
C3_Witness ==
    /\ pc = "classified"
    /\ DOMAIN pairs # {}
    /\ \E n \in 1..Len(files) : Matched(n) /\ InSingles(files[n])

(* C4.  When no two inputs share a sample name and mate digit, S is a key   *)
(* of the returned PairLookup exactly when the input holds a file named     *)
(* S, separator, optional marker, "1", dot, extension and one with "2" for  *)
(* "1"; Forward is then the path of the former and Reverse the path of the  *)
(* latter, and a file with no separator is in SingleReads, as is a lone     *)
(* mate.                                                                    *)
C4_PairsByName ==
    (/\ Returned
     /\ \A S \in SampleNames, d \in MateDigits : Cardinality(MatesOf(S, d)) <= 1)
    => /\ \A S \in SampleNames \cup DOMAIN pairs :
            /\ S \in DOMAIN pairs <=> (MatesOf(S, "1") # {} /\ MatesOf(S, "2") # {})
            /\ S \in DOMAIN pairs =>
                  /\ \A n \in MatesOf(S, "1") : HoldsSlot(<<S, Forward>>, files[n])
                  /\ \A n \in MatesOf(S, "2") : HoldsSlot(<<S, Reverse>>, files[n])
            /\ \A d \in MateDigits : \A n \in MatesOf(S, d) :
                  S \notin DOMAIN pairs => InSingles(files[n]) /\ ~InPairs(files[n])
       /\ \A n \in 1..Len(files) :
            NoSeparator(n) => InSingles(files[n]) /\ ~InPairs(files[n])

(* C5.  A path whose base name matches the pattern is entered in PairLookup *)
(* under its sample name, as Forward when the mate digit is "1" and as      *)
(* Reverse otherwise, a match without any mate digit included.              *)
C5_DigitDirection ==
    pc \in {"scan", "panic_group"} =>
        LET slot == SlotsOf(Attempted)
        IN  \A n \in DOMAIN slot :
                HoldsSlot(slot[n], files[Max({m \in DOMAIN slot : slot[m] = slot[n]})])

(* C6, as stated.  For every file name with a single dot and no ".gz"     *)
(* suffix, the dot being anywhere in the name, get_extension returns the   *)
(* text after the dot.                                                     *)
C6_AfterTheDot ==
    (extOut # <<>> /\ SingleDotName(extName))
    => extOut[1] = Some(AfterLastDot(extName))

(* C6, amended.  For every file name with a single dot and no ".gz"        *)
(* suffix, get_extension returns the text after the dot when the dot is    *)
(* not the last character, the first character included, and returns no    *)
(* extension when the dot is the last character.                           *)
C6_AfterTheDotUnlessLast ==
    (extOut # <<>> /\ SingleDotName(extName))
    => extOut[1] = IF extName[Len(extName)] = "."
                   THEN None
                   ELSE Some(AfterLastDot(extName))

\* get_extension has run on a name that starts with its only dot
C6_Witness ==
    /\ extOut # <<>>
    /\ SingleDotName(extName)
    /\ Len(extName) > 1
    /\ extName[1] = "."
    /\ IsSome(extOut[1])

(* C7, as stated.  In every job line, the flag of each of the six tuning   *)
(* values is present exactly when the user set that option.                *)
C7_FlagIffSet ==
    pc = "jobs" =>
        \A n \in 1..Len(jobs), o \in TuningU32 \cup {"memory"} :
            HasFlag(jobs[n], TuningFlag(o)) <=> IsSome(argv[o])

(* C7, amended.  In every job line, the flag of min_count, k_min, k_max,   *)
(* k_step and min_contig_length is present exactly when the user set the   *)
(* option to a text that reads as a u32; --memory is present unless the    *)
(* user set memory to a text that does not read as an f32, the default     *)
(* 1000000000 standing in when the user set nothing.                       *)
C7_FlagIffParsed ==
    pc = "jobs" =>
        \A n \in 1..Len(jobs) :
            /\ \A o \in TuningU32 :
                  HasFlag(jobs[n], TuningFlag(o)) <=> argv[o] \in {Some(v) : v \in U32Texts}
            /\ HasFlag(jobs[n], "--memory")
                  <=> argv["memory"] \in {None} \cup {Some(v) : v \in F32Texts}

\* jobs were built with memory not set, k_min a number and min_count no number
C7_Witness ==
    /\ pc = "jobs"
    /\ jobs # <<>>
    /\ argv["memory"] = None
    /\ argv["k_min"] = Some(V_7)
    /\ argv["min_count"] = Some(V_x)

(* C8, as stated.  The separator is optional: when the input holds a base  *)
(* name S, optional marker, "1", dot, extension and one with "2" for "1",  *)
(* neither with a separator, classify returns them as the pair of S.       *)
C8_OptionalSeparator ==
    Returned =>
        \A S \in SampleNames :
            (BareMates(S, "1") # {} /\ BareMates(S, "2") # {})
            => /\ S \in DOMAIN pairs
               /\ \E n \in BareMates(S, "1") : HoldsSlot(<<S, Forward>>, files[n])
               /\ \E n \in BareMates(S, "2") : HoldsSlot(<<S, Reverse>>, files[n])

(* C8, amended.  The separator is required: a path whose base name holds   *)
(* neither "_" nor "-" never stops the loop, is in SingleReads once the    *)
(* loop is past it and is never in PairLookup.                             *)
C8_SeparatorRequired ==
    \A n \in 1..Len(files) :
        NoSeparator(n) =>
            /\ ~(pc = "panic_group" /\ idx = n)
            /\ n \in Scanned => InSingles(files[n])
            /\ ~InPairs(files[n])

\* classify has returned S1.fq and S2.fq as two single reads and no pair
C8_Witness ==
    /\ pc = "classified"
    /\ \E n, m \in 1..Len(files) : files[n] = P_S1n /\ files[m] = P_S2n
    /\ InSingles(P_S1n) /\ InSingles(P_S2n)
    /\ DOMAIN pairs = {}

(* C9.  While the loop runs and when it ends, each slot (sample name,      *)
(* direction) of PairLookup holds the last of the paths scanned so far     *)
(* that map to it, there is no slot without such a path, and the sample    *)
(* name is the beginning of the base name, whatever the directory.         *)
C9_LastWriteWins ==
    pc = "scan" =>
        LET slot == SlotsOf(Scanned)
        IN  /\ \A n \in DOMAIN slot :
                  /\ HoldsSlot(slot[n], files[Max({m \in DOMAIN slot : slot[m] = slot[n]})])
                  /\ SubSeq(Base(n), 1, Len(slot[n][1])) = slot[n][1]
            /\ \A sl \in PairSlots : \E n \in DOMAIN slot : slot[n] = sl

\* the loop has ended with two different paths scanned for one slot
C9_Witness ==
    /\ pc = "scan"
    /\ idx > Len(files)
    /\ LET slot == SlotsOf(Scanned)
       IN  \E n, m \in DOMAIN slot :
              /\ n < m
              /\ files[n] # files[m]
              /\ slot[n] = slot[m]
              /\ HoldsSlot(slot[m], files[m])

(* C10.  make_jobs does not fail on what classify returned, and emits one  *)
(* job per key of PairLookup, with the pair's Forward path as -1 and its   *)
(* Reverse path as -2, followed by one job per element of SingleReads,     *)
(* with that path as -r: no pair is skipped.                               *)
C10_OneJobEach ==
    /\ pc # "panic_basename"
    /\ pc = "jobs" =>
          LET np == Cardinality(DOMAIN pairs)
          IN  /\ Len(jobs) = np + Len(singles)
              /\ \A k \in DOMAIN pairs :
                    /\ DOMAIN pairs[k] = {Forward, Reverse}
                    /\ Cardinality({n \in 1..np :
                          jobs[n].inputs = << <<"-1", pairs[k][Forward]>>,
                                              <<"-2", pairs[k][Reverse]>> >>}) = 1
              /\ \A n \in 1..Len(singles) :
                    jobs[np + n].inputs = << <<"-r", singles[n]>> >>

\* jobs were built for at least one pair and one single read
C10_Witness ==
    /\ pc = "jobs"
    /\ DOMAIN pairs # {}
    /\ singles # <<>>

=============================================================================
